---- MODULE Spec2Model ----
(***************************************************************************)
(* Model of the ink! contract `quiz` (src/lib.rs): a registry of quiz      *)
(* questions whose answers are kept as Blake2x256 digests, with an owner   *)
(* and a table of power levels guarding the writes.                        *)
(*                                                                         *)
(* The contract's storage (owner, questions, actors) is the state.  Each   *)
(* message is a pure operator from the storage and the call's inputs to    *)
(* the storage it leaves and the value it returns; one action per message  *)
(* applies it.  The messages are modelled as the Rust code runs them on    *)
(* the struct: what the hosting runtime does with the storage of a call    *)
(* that returned Err is outside src/lib.rs and outside this model.         *)
(*                                                                         *)
(* `last`, `pre` and `creator` are history variables: the call that        *)
(* produced the current state with the value it returned, the storage it   *)
(* ran on, and the account that ran the constructor.                       *)
(***************************************************************************)
EXTENDS Integers, Sequences, FiniteSets, TLC

\* ------------------------------------------------------------ bounds
\* Accounts are 1..NumAccounts.
NumAccounts == 3
\* add_question is explored while it leaves at most MaxQuestions questions.
MaxQuestions == 2

AccountId == 1..NumAccounts

\* The bytes answers are written with ('B', 'G').
Chars == {66, 71}

\* String inputs for `answer` / `attempt`: "", "B", "G".
Answers == UNION {[1..n -> Chars] : n \in 0..1}

\* The digests, scaled down from the 2^256 values of [u8; 32]; two of the
\* answers above share a digest, the third has another.
Digest == 0..2

\* String inputs for `question`; stored and returned verbatim.
Prompts == {"What color is the sky?", "What color is grass?"}

\* u32 inputs for `index`: every index of a question and at least one past the
\* end (`index as usize` widens, it never truncates).
Indices == 0..MaxQuestions

\* enum PowerLevel
PowerLevel == {"Educator", "User"}

\* enum Error
Error == {"WrongAnswer", "QuestionDoesntExist", "InvalidPowerLevel", "InvalidCaller"}

\* Result<T, Error>
Ok(v) == <<"Ok", v>>
Err(e) == <<"Err", e>>
IsOk(r) == r[1] = "Ok"
IsErr(r) == r[1] = "Err"

\* The unit value ().
Unit == <<>>

VARIABLES owner, questions, actors, last, pre, creator

vars == <<owner, questions, actors, last, pre, creator>>

\* The storage struct Quiz as a value.
Quiz(o, q, a) == [owner |-> o, questions |-> q, actors |-> a]

self == Quiz(owner, questions, actors)

\* ------------------------------------------------------------ hashing

\* scale::Encode for String: the compact length prefix (one byte, len << 2,
\* for len < 64) followed by the bytes.
Encode(s) == <<4 * Len(s)>> \o s

RECURSIVE Compress(_, _)
\* The hash function absorbing the bytes in order into the digest h.
Compress(h, bytes) ==
    IF bytes = <<>> THEN h
    ELSE Compress((h * 31 + Head(bytes)) % Cardinality(Digest), Tail(bytes))

\* Quiz::hash::<Blake2x256, String>: the digest of the encoded entity.
hash(entity) == Compress(0, Encode(entity))

\* ------------------------------------------------------------ checks

\* ensure_powerlevel reporting a missing entry as a wrong power level.
ensure_powerlevel_swapped(s, id, level) ==
    IF id \in DOMAIN s.actors
    THEN IF s.actors[id] = level THEN Ok(Unit) ELSE Err("InvalidCaller")
    ELSE Err("InvalidPowerLevel")

ensure_powerlevel(s, id, level) ==
    IF id \in DOMAIN s.actors
    THEN IF s.actors[id] = level THEN Ok(Unit) ELSE Err("InvalidPowerLevel")
    ELSE Err("InvalidCaller")

\* ensure_contract_owner accepting every holder of Educator.
ensure_contract_owner_any_educator(s, id) ==
    IF id \in DOMAIN s.actors /\ s.actors[id] = "Educator"
    THEN Ok(Unit) ELSE Err("InvalidCaller")

ensure_contract_owner(s, id) ==
    IF id # s.owner THEN Err("InvalidCaller") ELSE Ok(Unit)

\* Mapping::insert: insert or overwrite one entry.
Insert(m, k, v) == [x \in DOMAIN m \cup {k} |-> IF x = k THEN v ELSE m[x]]

\* ------------------------------------------------------------ messages
\* Each message returns [self |-> the storage it leaves, result |-> its value].

\* A constructor that forgets to register the creator.
new_no_grant(caller) == Quiz(caller, <<>>, <<>>)

new(caller) == Quiz(caller, <<>>, Insert(<<>>, caller, "Educator"))

\* add_question that puts the new question first.
add_question_front(s, caller, question, answer) ==
    LET chk == ensure_powerlevel(s, caller, "Educator") IN
    IF IsErr(chk) THEN [self |-> s, result |-> chk]
    ELSE [self |-> [s EXCEPT !.questions =
                        <<[question |-> question, answer |-> hash(answer)]>> \o @],
          result |-> Ok(Unit)]

\* add_question that keeps one question per prompt, replacing the stored one.
add_question_replace(s, caller, question, answer) ==
    LET chk == ensure_powerlevel(s, caller, "Educator")
        new_q == [question |-> question, answer |-> hash(answer)]
        same == {i \in 1..Len(s.questions) : s.questions[i].question = question}
    IN
    IF IsErr(chk) THEN [self |-> s, result |-> chk]
    ELSE IF same # {}
    THEN [self |-> [s EXCEPT !.questions =
                        [i \in 1..Len(@) |-> IF i \in same THEN new_q ELSE @[i]]],
          result |-> Ok(Unit)]
    ELSE [self |-> [s EXCEPT !.questions = Append(@, new_q)], result |-> Ok(Unit)]

\* add_question hashing the answer's bytes without encoding them.
add_question_raw_hash(s, caller, question, answer) ==
    LET chk == ensure_powerlevel(s, caller, "Educator") IN
    IF IsErr(chk) THEN [self |-> s, result |-> chk]
    ELSE [self |-> [s EXCEPT !.questions =
                        Append(@, [question |-> question,
                                   answer |-> Compress(0, answer)])],
          result |-> Ok(Unit)]

add_question(s, caller, question, answer) ==
    LET chk == ensure_powerlevel(s, caller, "Educator") IN
    IF IsErr(chk) THEN [self |-> s, result |-> chk]
    ELSE LET answer_hash == hash(answer) IN
         [self |-> [s EXCEPT !.questions =
                        Append(@, [question |-> question, answer |-> answer_hash])],
          result |-> Ok(Unit)]

\* add_educator registering the new account as a User.
add_educator_as_user(s, caller, educator) ==
    LET chk == ensure_contract_owner(s, caller) IN
    IF IsErr(chk) THEN [self |-> s, result |-> chk]
    ELSE [self |-> [s EXCEPT !.actors = Insert(@, educator, "User")],
          result |-> Err("InvalidCaller")]

\* add_educator reporting success after the insert.
add_educator_ok(s, caller, educator) ==
    LET chk == ensure_contract_owner(s, caller) IN
    IF IsErr(chk) THEN [self |-> s, result |-> chk]
    ELSE [self |-> [s EXCEPT !.actors = Insert(@, educator, "Educator")],
          result |-> Ok(Unit)]

\* add_educator handing the contract over to the new educator.
add_educator_transfers_owner(s, caller, educator) ==
    LET chk == ensure_contract_owner(s, caller) IN
    IF IsErr(chk) THEN [self |-> s, result |-> chk]
    ELSE [self |-> [s EXCEPT !.actors = Insert(@, educator, "Educator"),
                             !.owner = educator],
          result |-> Err("InvalidCaller")]

\* add_educator toggling the entry: a second grant takes the role away.
add_educator_toggle(s, caller, educator) ==
    LET chk == ensure_contract_owner(s, caller) IN
    IF IsErr(chk) THEN [self |-> s, result |-> chk]
    ELSE IF educator \in DOMAIN s.actors
    THEN [self |-> [s EXCEPT !.actors = [x \in DOMAIN @ \ {educator} |-> @[x]]],
          result |-> Err("InvalidCaller")]
    ELSE [self |-> [s EXCEPT !.actors = Insert(@, educator, "Educator")],
          result |-> Err("InvalidCaller")]

\* add_educator keeping a single delegate beside the owner.
add_educator_single_delegate(s, caller, educator) ==
    LET chk == ensure_contract_owner(s, caller) IN
    IF IsErr(chk) THEN [self |-> s, result |-> chk]
    ELSE [self |-> [s EXCEPT !.actors =
                        Insert(Insert(<<>>, s.owner, "Educator"), educator, "Educator")],
          result |-> Err("InvalidCaller")]

\* add_educator returning its error before the insert.
add_educator_no_insert(s, caller, educator) ==
    LET chk == ensure_contract_owner(s, caller) IN
    IF IsErr(chk) THEN [self |-> s, result |-> chk]
    ELSE [self |-> s, result |-> Err("InvalidCaller")]

\* add_educator open to every holder of Educator.
add_educator_by_educator(s, caller, educator) ==
    LET chk == ensure_powerlevel(s, caller, "Educator") IN
    IF IsErr(chk) THEN [self |-> s, result |-> chk]
    ELSE [self |-> [s EXCEPT !.actors = Insert(@, educator, "Educator")],
          result |-> Err("InvalidCaller")]

add_educator(s, caller, educator) ==
    LET chk == ensure_contract_owner(s, caller) IN
    IF IsErr(chk) THEN [self |-> s, result |-> chk]
    ELSE [self |-> [s EXCEPT !.actors = Insert(@, educator, "Educator")],
          result |-> Err("InvalidCaller")]

\* get with the bound off by one: the index equal to the length wraps to the
\* last question.
get_off_by_one(s, index) ==
    IF index < Len(s.questions) THEN Ok(s.questions[index + 1])
    ELSE IF index = Len(s.questions) /\ index > 0 THEN Ok(s.questions[index])
    ELSE Err("QuestionDoesntExist")

\* Vec::get(index as usize) is Some exactly below the length; the vector is
\* indexed from 0, the sequence from 1.
get(s, index) ==
    IF index < Len(s.questions) THEN Ok(s.questions[index + 1])
    ELSE Err("QuestionDoesntExist")

\* check_answer returning the comparison as its value.
check_answer_bool(s, index, attempt) ==
    LET question == get(s, index) IN
    IF IsErr(question) THEN question
    ELSE Ok(question[2].answer = hash(attempt))

check_answer(s, index, attempt) ==
    LET question == get(s, index) IN
    IF IsErr(question) THEN question
    ELSE LET answer_hash == hash(attempt) IN
         IF question[2].answer = answer_hash THEN Ok(TRUE)
         ELSE Err("WrongAnswer")

\* ------------------------------------------------------------ behaviour

\* The record of one call.
Call(op, caller, args, result) ==
    [op |-> op, caller |-> caller, args |-> args, result |-> result]

\* The storage becomes s, reached by call c from the current storage.
Step(s, c) ==
    /\ owner' = s.owner
    /\ questions' = s.questions
    /\ actors' = s.actors
    /\ last' = c
    /\ pre' = self
    /\ creator' = creator

\* The constructor, run by any account.
Init ==
    \E caller \in AccountId :
        LET s == new(caller) IN
        /\ owner = s.owner
        /\ questions = s.questions
        /\ actors = s.actors
        /\ last = Call("new", caller, Unit, Ok(Unit))
        /\ pre = s
        /\ creator = caller

AddQuestion ==
    \E caller \in AccountId, question \in Prompts, answer \in Answers :
        LET r == add_question(self, caller, question, answer) IN
        /\ Len(r.self.questions) <= MaxQuestions
        /\ Step(r.self, Call("add_question", caller,
                             [question |-> question, answer |-> answer], r.result))

AddEducator ==
    \E caller \in AccountId, educator \in AccountId :
        LET r == add_educator(self, caller, educator) IN
        Step(r.self, Call("add_educator", caller, [educator |-> educator], r.result))

\* get answering only callers that hold Educator.
Get_educator_only ==
    \E caller \in AccountId, index \in Indices :
        LET chk == ensure_powerlevel(self, caller, "Educator") IN
        Step(self, Call("get", caller, [index |-> index],
                        IF IsErr(chk) THEN chk ELSE get(self, index)))

\* get and check_answer take &self: the storage is left as it is.
Get ==
    \E caller \in AccountId, index \in Indices :
        Step(self, Call("get", caller, [index |-> index], get(self, index)))

CheckAnswer ==
    \E caller \in AccountId, index \in Indices, attempt \in Answers :
        Step(self, Call("check_answer", caller,
                        [index |-> index, attempt |-> attempt],
                        check_answer(self, index, attempt)))

Next == AddQuestion \/ AddEducator \/ Get \/ CheckAnswer

Spec == Init /\ [][Next]_vars

\* ------------------------------------------------------------ properties

\* The storage after one entry of the role table is rewritten to User.  No
\* message writes User, so this storage is used only to run add_question on
\* the branch of ensure_powerlevel that no reachable storage takes.
WithUser(s, id) == [s EXCEPT !.actors = Insert(@, id, "User")]

\* C1: every message is atomic: when the call returned an error, owner,
\* questions and actors are what they were before the call.
C1_ErrorLeavesStorageUnchanged ==
    IsErr(last.result) => self = pre

\* C2: add_question by a caller holding Educator returns Ok(()), appends
\* exactly {question, hash(answer)} at the index equal to the previous length,
\* leaves the earlier questions as they were, and get(previous length) then
\* returns the prompt verbatim.
C2_AddQuestionAppends ==
    ( /\ last.op = "add_question"
      /\ last.caller \in DOMAIN pre.actors
      /\ pre.actors[last.caller] = "Educator" )
    => LET n == Len(pre.questions)
           got == get(self, n)
       IN /\ last.result = Ok(Unit)
          /\ Len(questions) = n + 1
          /\ questions[n + 1] = [question |-> last.args.question,
                                 answer |-> hash(last.args.answer)]
          /\ \A i \in 1..n : questions[i] = pre.questions[i]
          /\ IsOk(got)
          /\ got[2].question = last.args.question
          /\ owner = pre.owner
          /\ actors = pre.actors

C2_Witness ==
    /\ last.op = "add_question"
    /\ IsOk(last.result)
    /\ Len(pre.questions) >= 1
    /\ pre.questions[1].question # last.args.question

\* C3: add_question by a caller with no entry in actors fails with
\* InvalidCaller, by a caller whose entry is User with InvalidPowerLevel, and
\* in both cases the storage is unchanged.
C3_AddQuestionRejected ==
    /\ ( last.op = "add_question" /\ last.caller \notin DOMAIN pre.actors )
       => ( last.result = Err("InvalidCaller") /\ self = pre )
    /\ ( /\ last.op = "add_question"
         /\ last.caller \in DOMAIN pre.actors
         /\ pre.actors[last.caller] = "User" )
       => ( last.result = Err("InvalidPowerLevel") /\ self = pre )
    /\ \A id \in AccountId, question \in Prompts, answer \in Answers :
           LET s == WithUser(self, id)
               r == add_question(s, id, question, answer)
           IN r.result = Err("InvalidPowerLevel") /\ r.self = s

C3_Witness ==
    /\ last.op = "add_question"
    /\ last.caller \notin DOMAIN pre.actors
    /\ Len(pre.questions) >= 1
    /\ Cardinality(DOMAIN pre.actors) >= 2

\* C4: check_answer(index, attempt) returns Err(QuestionDoesntExist) when
\* index >= len(questions), Ok(true) when hash(attempt) is the stored digest,
\* Err(WrongAnswer) when it is not, and never Ok(false).
C4_CheckAnswerAsymmetric ==
    last.op = "check_answer"
    => LET i == last.args.index
           r == last.result
       IN /\ i >= Len(questions)
             => ( IsErr(r) /\ r[2] = "QuestionDoesntExist" )
          /\ ( i < Len(questions) /\ hash(last.args.attempt) = questions[i + 1].answer )
             => ( IsOk(r) /\ r[2] = TRUE )
          /\ ( i < Len(questions) /\ hash(last.args.attempt) # questions[i + 1].answer )
             => ( IsErr(r) /\ r[2] = "WrongAnswer" )
          /\ ~( IsOk(r) /\ r[2] = FALSE )

C4_Witness ==
    /\ last.op = "check_answer"
    /\ last.args.index = 1
    /\ IsOk(last.result)
    /\ last.result[2] = TRUE
    /\ hash(last.args.attempt) # questions[1].answer

\* C5: the ledger is append-only: no step shortens questions, and an index
\* at which get returns a question returns the same question (prompt and
\* digest) after every step.
C5_AppendOnly ==
    [][ /\ Len(questions') >= Len(questions)
        /\ \A i \in Indices :
               IsOk(get(self, i))
               => get(Quiz(owner', questions', actors'), i) = get(self, i) ]_vars

C5_Witness ==
    /\ last.op = "get"
    /\ last.args.index = 0
    /\ IsOk(last.result)
    /\ Len(questions) = MaxQuestions
    /\ questions[1].question = questions[2].question
    /\ questions[1].answer # questions[2].answer

\* C6: the owner is the account that ran the constructor, in every state, and
\* actors maps it to Educator.
C6_OwnerFixedAndEducator ==
    /\ owner = creator
    /\ owner \in DOMAIN actors
    /\ actors[owner] = "Educator"

C6_Witness ==
    /\ last.op = "add_educator"
    /\ last.caller = owner
    /\ last.args.educator = owner
    /\ Cardinality(DOMAIN actors) >= 2
    /\ Len(questions) >= 1

\* C7: get(index) returns Ok with the question stored at index exactly when
\* index < len(questions), and Err(QuestionDoesntExist) otherwise.
C7_GetInRange ==
    last.op = "get"
    => LET i == last.args.index
           r == last.result
       IN IF i < Len(questions)
          THEN IsOk(r) /\ r[2] = questions[i + 1]
          ELSE IsErr(r) /\ r[2] = "QuestionDoesntExist"

C7_Witness ==
    /\ last.op = "get"
    /\ last.args.index = 1
    /\ IsOk(last.result)
    /\ last.result[2] # questions[1]

\* C8: right after the constructor run by c, owner = c, actors is exactly
\* c -> Educator, questions is empty, and get and check_answer fail with
\* QuestionDoesntExist at every index.
C8_AfterConstructor ==
    last.op = "new"
    => /\ owner = last.caller
       /\ DOMAIN actors = {last.caller}
       /\ actors[last.caller] = "Educator"
       /\ questions = <<>>
       /\ \A i \in Indices : get(self, i) = Err("QuestionDoesntExist")
       /\ \A i \in Indices, x \in Answers :
              check_answer(self, i, x) = Err("QuestionDoesntExist")

C8_Witness ==
    /\ last.op = "new"
    /\ last.caller = NumAccounts
    /\ pre = self

\* C9: add_educator(target) by the owner records target -> Educator and
\* returns Err(InvalidCaller); add_educator never returns Ok(()).
C9_AddEducatorAlwaysErr ==
    last.op = "add_educator"
    => /\ IsErr(last.result)
       /\ last.caller = pre.owner
          => /\ last.args.educator \in DOMAIN actors
             /\ actors[last.args.educator] = "Educator"
             /\ last.result = Err("InvalidCaller")

C9_Witness ==
    /\ last.op = "add_educator"
    /\ last.caller = pre.owner
    /\ last.args.educator \notin DOMAIN pre.actors
    /\ last.args.educator \in DOMAIN actors

\* C10: add_educator by any account other than the owner, a holder of Educator
\* included, fails with InvalidCaller and leaves actors unchanged; actors
\* changes only in a step in which the owner calls add_educator.
C10_OnlyOwnerGrants ==
    /\ ( last.op = "add_educator" /\ last.caller # pre.owner )
       => ( last.result = Err("InvalidCaller") /\ actors = pre.actors )
    /\ actors # pre.actors
       => ( last.op = "add_educator" /\ last.caller = pre.owner )

C10_Witness ==
    /\ last.op = "add_educator"
    /\ last.caller # owner
    /\ last.caller \in DOMAIN actors
    /\ actors[last.caller] = "Educator"
    /\ last.args.educator \notin DOMAIN actors

\* C11 as stated: add_educator(target) called by any account whose entry in
\* actors is Educator, the owner or not, leaves target recorded as Educator.
C11_AnyEducatorGrants ==
    ( /\ last.op = "add_educator"
      /\ last.caller \in DOMAIN pre.actors
      /\ pre.actors[last.caller] = "Educator" )
    => ( /\ last.args.educator \in DOMAIN actors
         /\ actors[last.args.educator] = "Educator" )

\* C11 amended: holding Educator is not enough to grant it.  add_educator by
\* the owner leaves target recorded as Educator; add_educator by an account
\* that holds Educator and is not the owner fails with InvalidCaller and the
\* target's entry, present or absent, is what it was.
C11_OnlyOwnerEducatorGrants ==
    ( /\ last.op = "add_educator"
      /\ last.caller \in DOMAIN pre.actors
      /\ pre.actors[last.caller] = "Educator" )
    => LET t == last.args.educator IN
       IF last.caller = pre.owner
       THEN t \in DOMAIN actors /\ actors[t] = "Educator"
       ELSE /\ last.result = Err("InvalidCaller")
            /\ (t \in DOMAIN actors) = (t \in DOMAIN pre.actors)
            /\ t \in DOMAIN actors => actors[t] = pre.actors[t]

C11_Witness ==
    /\ last.op = "add_educator"
    /\ last.caller # pre.owner
    /\ last.caller \in DOMAIN pre.actors
    /\ pre.actors[last.caller] = "Educator"
    /\ last.args.educator \notin DOMAIN actors
    /\ Len(questions) >= 1

\* C12: an answer round-trips.  Right after an Educator's add_question(q, a)
\* put a question at index i, check_answer(i, a) is Ok(true); and whatever
\* check_answer(i, a) answered Ok(true) before a step, it answers Ok(true)
\* after it, for every index and plaintext and every message by any caller.
C12_AnswerRoundTrip ==
    /\ ( last.op = "add_question" /\ IsOk(last.result) )
       => check_answer(self, Len(pre.questions), last.args.answer) = Ok(TRUE)
    /\ \A i \in Indices, a \in Answers :
           LET before == check_answer(pre, i, a)
               after == check_answer(self, i, a)
           IN ( IsOk(before) /\ before[2] = TRUE )
              => ( IsOk(after) /\ after[2] = TRUE )

C12_Witness ==
    /\ last.op = "add_question"
    /\ IsOk(last.result)
    /\ last.args.answer = <<66>>
    /\ Len(pre.questions) >= 1
    /\ check_answer(pre, 0, <<66>>) = Err("WrongAnswer")
    /\ check_answer(self, Len(pre.questions), <<66>>) = Ok(TRUE)

\* Two results are the same variant with the same payload.
SameResult(r1, r2) == r1[1] = r2[1] /\ r1[2] = r2[2]

\* Role tables to rerun a read under: none, the current one, everyone a User.
OtherActors == {<<>>, pre.actors, [x \in AccountId |-> "User"]}

\* C13: get and check_answer are public: what they returned to the caller is
\* what they return on the same questions and arguments under any owner and
\* any role table, so it depends neither on the caller nor on actors.
C13_ReadsArePublic ==
    /\ last.op = "get"
       => \A o \in AccountId, a \in OtherActors :
              SameResult(last.result,
                         get(Quiz(o, pre.questions, a), last.args.index))
    /\ last.op = "check_answer"
       => \A o \in AccountId, a \in OtherActors :
              SameResult(last.result,
                         check_answer(Quiz(o, pre.questions, a),
                                      last.args.index, last.args.attempt))

C13_Witness ==
    /\ last.op = "get"
    /\ last.caller \notin DOMAIN actors
    /\ IsOk(last.result)
    /\ last.args.index = 1

\* C14: delegated write access takes effect.  When the owner's
\* add_educator(t) reached a t with no role, the call reported an error,
\* add_question by t failed with InvalidCaller on the storage before it and
\* returns Ok(()) and appends on the storage after it; and an add_question
\* actually called by a delegate (an account in actors other than the owner)
\* returned Ok(()) and appended one question.
C14_DelegationTakesEffect ==
    /\ ( /\ last.op = "add_educator"
         /\ last.caller = pre.owner
         /\ last.args.educator \notin DOMAIN pre.actors )
       => /\ IsErr(last.result)
          /\ \A q \in Prompts, a \in Answers :
                 LET t == last.args.educator
                     before == add_question(pre, t, q, a)
                     after == add_question(self, t, q, a)
                 IN /\ before.result = Err("InvalidCaller")
                    /\ before.self = pre
                    /\ after.result = Ok(Unit)
                    /\ after.self.questions
                         = Append(questions, [question |-> q, answer |-> hash(a)])
    /\ ( /\ last.op = "add_question"
         /\ last.caller # pre.owner
         /\ last.caller \in DOMAIN pre.actors )
       => /\ last.result = Ok(Unit)
          /\ Len(questions) = Len(pre.questions) + 1
          /\ questions[Len(questions)].question = last.args.question

C14_Witness ==
    /\ last.op = "add_question"
    /\ last.caller # owner
    /\ IsOk(last.result)
    /\ Len(questions) = Len(pre.questions) + 1

\* C15: frame conditions.  get and check_answer leave owner, questions and
\* actors as they were, whatever they return; add_question leaves actors and
\* owner; add_educator leaves questions and owner.
C15_Frames ==
    /\ last.op \in {"get", "check_answer"} => self = pre
    /\ last.op = "add_question"
       => ( actors = pre.actors /\ owner = pre.owner )
    /\ last.op = "add_educator"
       => ( questions = pre.questions /\ owner = pre.owner )

C15_Witness ==
    /\ last.op = "add_educator"
    /\ actors # pre.actors
    /\ last.args.educator # owner
    /\ Len(questions) >= 1

\* C16: granting is idempotent.  After the owner's add_educator(t), the same
\* call again leaves the storage as it is; and add_educator(t) for a t that
\* is already Educator, the owner included, leaves actors unchanged.
C16_GrantIdempotent ==
    /\ ( last.op = "add_educator" /\ last.caller = pre.owner )
       => add_educator(self, last.caller, last.args.educator).self = self
    /\ ( /\ last.op = "add_educator"
         /\ last.args.educator \in DOMAIN pre.actors
         /\ pre.actors[last.args.educator] = "Educator" )
       => actors = pre.actors

C16_Witness ==
    /\ last.op = "add_educator"
    /\ last.caller = pre.owner
    /\ last.args.educator # pre.owner
    /\ last.args.educator \in DOMAIN pre.actors
    /\ pre.actors[last.args.educator] = "Educator"

\* C17: no account is ever mapped to User, no message returns
\* InvalidPowerLevel, and add_question succeeds exactly for the accounts
\* present in actors.
C17_NoUserEver ==
    /\ \A id \in DOMAIN actors : actors[id] # "User"
    /\ ~( IsErr(last.result) /\ last.result[2] = "InvalidPowerLevel" )
    /\ last.op = "add_question"
       => ( IsOk(last.result) <=> last.caller \in DOMAIN pre.actors )
    /\ \A id \in AccountId, q \in Prompts, a \in Answers :
           IsOk(add_question(self, id, q, a).result) <=> id \in DOMAIN actors

C17_Witness ==
    /\ last.op = "add_question"
    /\ IsErr(last.result)
    /\ last.result[2] = "InvalidCaller"
    /\ Cardinality(DOMAIN actors) = 2
    /\ Len(questions) >= 1

\* C18: roles are never revoked or downgraded: an account mapped to Educator
\* before a step is mapped to Educator after it, and every account that could
\* add a question before the step can after it.
C18_RolesNeverRevoked ==
    /\ \A id \in DOMAIN pre.actors :
           pre.actors[id] = "Educator"
           => ( id \in DOMAIN actors /\ actors[id] = "Educator" )
    /\ \A id \in AccountId :
           IsOk(ensure_powerlevel(pre, id, "Educator"))
           => IsOk(ensure_powerlevel(self, id, "Educator"))

C18_Witness ==
    /\ last.op = "add_educator"
    /\ actors # pre.actors
    /\ Cardinality(DOMAIN pre.actors) >= 2
    /\ \A id \in DOMAIN pre.actors : id \in DOMAIN actors

====
